---- MODULE Spec2Model ----
(***************************************************************************)
(* Reels composition pipeline of figma-to-instagram:                       *)
(*   app.py render_reels_page (media sourcing loop)                        *)
(*     -> reels_video.create_reel (narration, scene building)              *)
(*     -> reels_video.compose_reel (segment rendering, concat, cleanup).   *)
(* One run of the pipeline is modelled step by step; pc is the position of *)
(* the single thread of control inside it.                                 *)
(***************************************************************************)
EXTENDS Integers, Sequences, FiniteSets, TLC

\* Largest number of slides of a script explored by the model.
MaxSlides == 2

VARIABLES
    pc,               \* position of the run
    slides,           \* script["slides"]
    include_intro,    \* compose_reel argument
    include_bumper,   \* compose_reel argument
    intro_exists,     \* os.path.exists(INTRO_PATH)
    bumper_exists,    \* os.path.exists(BUMPER_PATH)
    media_data,       \* app.py: [(bytes, metadata), ...]
    narration_paths,  \* generate_narrations result
    scene_clips,      \* create_reel: scene per media_data entry
    segment_files,    \* compose_reel: rendered segment paths, in order
    concat_list,      \* lines written to concat.txt
    files,            \* files existing on disk
    _temp_files,       \* module-level _temp_files registry
    i,                \* loop index of the current loop (0-based, as in the code)
    render_failed,    \* slide indices whose _render_one_scene raised
    cleanup_calls,    \* number of _cleanup_temp_files() calls in the run
    concat_rc,        \* "none" before ffmpeg ran, then "ok" or "fail"
    tts_failed,       \* slide indices whose narration synthesis raised
    segment_durs,     \* slide_dur computed by _render_one_scene, per rendered slide
    unit,             \* a single function call under evaluation, with its result
    output,           \* what output_path holds once ffmpeg ran
    search_log,       \* app.py: the search_and_download calls made, with results
    last_run,         \* what the previous run in this process was given and produced
    runs,             \* overlapping runs in one process, each with its own position
    post,             \* InstagramClient._post_with_retry: the call in progress
    ig                \* InstagramClient.publish_carousel: the call in progress

vars == <<pc, slides, include_intro, include_bumper, intro_exists, bumper_exists,
          media_data, narration_paths, scene_clips, segment_files, concat_list,
          files, _temp_files, i, render_failed, cleanup_calls, concat_rc,
          tts_failed, segment_durs, unit, output, search_log, last_run, runs, post,
          ig>>

\* The variables of the pipeline run (everything but the single-call record).
pvars == <<pc, slides, include_intro, include_bumper, intro_exists, bumper_exists,
           media_data, narration_paths, scene_clips, segment_files, concat_list,
           files, _temp_files, i, render_failed, cleanup_calls, concat_rc,
           tts_failed, segment_durs, output, search_log, last_run, runs, post,
           ig>>

\* The variables only the side specifications move.
svars == <<last_run, runs, post, ig>>

Range(s) == {s[k] : k \in 1..Len(s)}

\* ---------------------------------------------------------------- inputs

\* Slide records: type tag, whether media_query / narration are non-empty.
Slide(t, q, n) == [type |-> t, media_query |-> q, narration |-> n]

SlideKinds ==
    { Slide("hook", FALSE, FALSE),
      Slide("content", TRUE, TRUE),
      Slide("closing", TRUE, TRUE) }

SlideLists == UNION {[1..n -> SlideKinds] : n \in 0..MaxSlides}

\* A media_data entry: bytes present or None, metadata type ("none" = no metadata).
Media(b, t) == [bytes |-> b, type |-> t]
NoMedia == Media(FALSE, "none")

\* Paths.  n is the slide index for per-slide files and 0 otherwise.
Path(k, n) == [k |-> k, n |-> n]
NoPath == Path("", 0)

\* Durations are in tenths of a second.
SLIDE_PADDING == 5
\* The 3.0 s get_audio_duration returns when it cannot probe the file.
DefaultAudioDur == 30

\* What AudioFileClip reports for a file: it opened (ok) with a duration, or raised.
Audio(ok, d) == [ok |-> ok, duration |-> d]

\* Length of the speech edge-tts synthesizes for a slide (a closing line is
\* shorter than a content line).
TtsDuration(slide) == IF slide.type = "closing" THEN 12 ELSE 42

\* output_path before ffmpeg ran.
NoOutput == [kind |-> "none", parts |-> <<>>]
\* No run came before this one.
NoRun == [ran |-> FALSE]
\* No call of the Instagram client is in progress.
NoRequest == [state |-> "idle"]

\* No single function call is under evaluation.
NoCall == [fn |-> "none"]

\* The outcome of a call: it raised, or it returned ret.
Returns(v) == [raised |-> FALSE, ret |-> v]
Raises == [raised |-> TRUE, ret |-> 0]

\* AudioFileClip(audio_path).duration: raises when the file cannot be opened.
AudioFileClipDuration(probed) ==
    IF probed.ok THEN Returns(probed.duration) ELSE Raises

\* get_audio_duration without its try/except: the decoder's exception escapes.
GetAudioDurationUnguarded(audio_path, fs, probed) ==
    IF audio_path = NoPath \/ audio_path \notin fs THEN Returns(DefaultAudioDur)
    ELSE AudioFileClipDuration(probed)

\* One call of get_audio_duration: 3.0 for an empty or missing path, else the
\* duration AudioFileClip reports, and 3.0 again when opening the file raises.
GetAudioDurationCall(audio_path, fs, probed) ==
    IF audio_path = NoPath \/ audio_path \notin fs THEN Returns(DefaultAudioDur)
    ELSE IF AudioFileClipDuration(probed).raised THEN Returns(DefaultAudioDur)
    ELSE AudioFileClipDuration(probed)

\* get_audio_duration: the value the call returns.
get_audio_duration(audio_path, fs, probed) ==
    GetAudioDurationCall(audio_path, fs, probed).ret

\* ---------------------------------------------------------------- registry

\* os.unlink(path) inside try/except: removes the file if it is there.
Unlink(fs, p) == fs \ {p}

\* _track_temp: append the path to the registry.
_track_temp(tracked, p) == Append(tracked, p)

\* The positions of the registry at which os.unlink raises: the path is not on
\* disk (never written, or already unlinked at an earlier position).
UnlinkErrors(fs, tracked) ==
    {k \in 1..Len(tracked) :
        \/ tracked[k] \notin fs
        \/ \E j \in 1..(k - 1) : tracked[j] = tracked[k]}

\* _cleanup_temp_files without the try/except around os.unlink: the first
\* failing unlink leaves the function, the later paths and the registry stay.
CleanupRunNoTry(fs, tracked) ==
    LET bad == UnlinkErrors(fs, tracked)
        first == IF bad = {} THEN Len(tracked) + 1
                 ELSE CHOOSE k \in bad : \A j \in bad : k <= j
    IN [files |-> fs \ {tracked[k] : k \in 1..(first - 1)},
        registry |-> IF bad = {} THEN <<>> ELSE tracked,
        raised |-> bad # {},
        errors |-> IF bad = {} THEN 0 ELSE 1]

\* One call of _cleanup_temp_files(): every tracked path is unlinked inside its
\* own try/except, then the registry is cleared.  errors counts the swallowed
\* exceptions.
CleanupRun(fs, tracked) ==
    [files |-> fs \ Range(tracked),
     registry |-> <<>>,
     raised |-> FALSE,
     errors |-> Cardinality(UnlinkErrors(fs, tracked))]

\* _cleanup_temp_files: the files left on disk by one call.
_cleanup_temp_files(fs, tracked) == CleanupRun(fs, tracked).files

\* ---------------------------------------------------------------- Init

Init ==
    /\ pc = "idle"
    /\ slides = <<>>
    /\ include_intro = FALSE
    /\ include_bumper = TRUE
    /\ intro_exists \in BOOLEAN
    /\ bumper_exists \in BOOLEAN
    /\ media_data = <<>>
    /\ narration_paths = <<>>
    /\ scene_clips = <<>>
    /\ segment_files = <<>>
    /\ concat_list = <<>>
    /\ files = {}
    /\ _temp_files = <<>>
    /\ i = 0
    /\ render_failed = {}
    /\ cleanup_calls = 0
    /\ concat_rc = "none"
    /\ tts_failed = {}
    /\ segment_durs = <<>>
    /\ output = NoOutput
    /\ search_log = <<>>
    /\ last_run = NoRun
    /\ runs = <<>>
    /\ post = NoRequest
    /\ ig = NoRequest
    /\ unit = NoCall

\* ---------------------------------------------------------------- app.py

\* The "generate reel" button: the script and the two checkboxes are read.
Start ==
    /\ pc = "idle"
    /\ \E s \in SlideLists, ii \in BOOLEAN, ib \in BOOLEAN :
          /\ slides' = s
          /\ include_intro' = ii
          /\ include_bumper' = ib
          /\ pc' = IF Len(s) > 0 THEN "source" ELSE "intro"
    /\ i' = 0
    /\ UNCHANGED <<svars, output, search_log, unit, tts_failed, segment_durs,
                   intro_exists, bumper_exists, media_data, narration_paths,
                   scene_clips, segment_files, concat_list, files, _temp_files,
                   render_failed, cleanup_calls, concat_rc>>

\* search_and_download outcomes for preferred_type "gif": nothing found,
\* metadata found but download failed, or bytes with gif / image metadata.
SearchResults ==
    { NoMedia, Media(FALSE, "gif"), Media(FALSE, "image"),
      Media(TRUE, "gif"), Media(TRUE, "image") }

\* The sourcing loop recording the metadata of a result whose download failed.
RecordedKeepsMetadata(r) == r

\* What the sourcing loop records for one search_and_download result.
Recorded(r) == IF r.bytes /\ r.type # "none" THEN r ELSE NoMedia

\* The sourcing loop searching for every slide that has a query, closing
\* slides included.
BypassesSourcingNoQueryOnly(slide) == ~slide.media_query

\* "if not query or slide.get('type') == 'closing'": no search for the slide.
BypassesSourcing(slide) == ~slide.media_query \/ slide.type = "closing"

\* One iteration of the sourcing loop of render_reels_page.
SourceSlide ==
    /\ pc = "source"
    /\ LET slide == slides[i + 1] IN
         IF BypassesSourcing(slide)
         THEN /\ media_data' = Append(media_data, NoMedia)
              /\ search_log' = search_log
         ELSE \E r \in SearchResults :
                 /\ media_data' = Append(media_data, Recorded(r))
                 /\ search_log' = Append(search_log,
                                         [slide |-> i, result |-> r])
    /\ i' = IF i + 1 < Len(slides) THEN i + 1 ELSE 0
    /\ pc' = IF i + 1 < Len(slides) THEN "source" ELSE "narrate"
    /\ UNCHANGED <<svars, output, unit, tts_failed, segment_durs,
                   slides, include_intro, include_bumper, intro_exists,
                   bumper_exists, narration_paths, scene_clips, segment_files,
                   concat_list, files, _temp_files, render_failed, cleanup_calls,
                   concat_rc>>

\* ---------------------------------------------------------------- create_reel

\* The audio of a narration file of the run, as AudioFileClip reports it.
AudioOf(p) ==
    IF p.k = "narration" /\ p.n < Len(slides)
    THEN Audio(TRUE, TtsDuration(slides[p.n + 1]))
    ELSE Audio(FALSE, 0)

\* generate_narrations dropping the entry of a slide whose synthesis raised.
OnSynthesisFailureSkip(paths) == paths

\* The except branch of generate_narrations: the slide's entry is "".
OnSynthesisFailure(paths) == Append(paths, NoPath)

\* One iteration of generate_narrations: empty narration -> "", synthesis
\* failure -> "", success -> narration_i.mp3 written under the output dir.
NarrateSlide ==
    /\ pc = "narrate"
    /\ IF ~slides[i + 1].narration
       THEN /\ narration_paths' = Append(narration_paths, NoPath)
            /\ files' = files
            /\ tts_failed' = tts_failed
       ELSE \E ok \in BOOLEAN :
               IF ok
               THEN /\ narration_paths' = Append(narration_paths, Path("narration", i))
                    /\ files' = files \cup {Path("narration", i)}
                    /\ tts_failed' = tts_failed
               ELSE /\ narration_paths' = OnSynthesisFailure(narration_paths)
                    /\ files' = files
                    /\ tts_failed' = tts_failed \cup {i}
    /\ i' = IF i + 1 < Len(slides) THEN i + 1 ELSE 0
    /\ pc' = IF i + 1 < Len(slides) THEN "narrate" ELSE "scenes"
    /\ UNCHANGED <<svars, output, search_log, unit, segment_durs,
                   slides, include_intro, include_bumper, intro_exists,
                   bumper_exists, media_data, scene_clips, segment_files,
                   concat_list, _temp_files, render_failed, cleanup_calls,
                   concat_rc>>

\* _load_video_clip with NamedTemporaryFile(delete=True): the file is gone as
\* soon as tmp.close() returns, while its name is still tracked.
LoadVideoClipDeleteOnClose(fs, tracked, n) ==
    <<fs, _track_temp(tracked, Path("media", n))>>

\* _load_video_clip: the bytes are written to a NamedTemporaryFile(delete=False)
\* which is tracked before the decoder opens it.  Result: <<files, registry>>.
_load_video_clip(fs, tracked, n) ==
    <<fs \cup {Path("media", n)}, _track_temp(tracked, Path("media", n))>>

\* The clip cap of the looping in _load_video_clip.
MaxLoops == 3

\* n_loops = min(int(duration / clip.duration) + 1, 3)
LoadVideoClipLoops(c, d) ==
    IF (d \div c) + 1 < MaxLoops THEN (d \div c) + 1 ELSE MaxLoops

\* clip.subclipped(0, end_time) on a clip holding `material` of frames.  Past the
\* end of the clip a moviepy build that validates end_time raises ValueError
\* (strict); one that does not returns a clip whose frames run out early.
Subclipped(material, end_time, strict) ==
    IF end_time <= material
    THEN Returns([duration |-> end_time, material |-> end_time])
    ELSE IF strict THEN Raises
    ELSE Returns([duration |-> end_time, material |-> material])

\* _load_video_clip, the duration side: a clip of native duration c asked to
\* fill d is repeated n_loops times and cut at d, or cut at min(c, d).
LoadVideoClipCall(c, d, strict) ==
    IF c < d
    THEN Subclipped(LoadVideoClipLoops(c, d) * c, d, strict)
    ELSE Subclipped(c, IF c < d THEN c ELSE d, strict)

\* The overlay bytes handed to _media_to_scene_clip: None, bytes PIL cannot
\* open, a PNG whose size is not W x H, or a W x H PNG.
Overlays == {"none", "unreadable", "wrong_size", "ok"}

\* overlay_pil after the guarded Image.open: None unless the bytes opened.
OverlayPil(overlay) ==
    IF overlay \in {"wrong_size", "ok"} THEN overlay ELSE "none"

\* _composite_frame: Image.alpha_composite raises ValueError when the overlay
\* and the W x H canvas differ in size.
CompositeFrameRaises(overlay) == OverlayPil(overlay) = "wrong_size"

\* A scene clip: its background, its duration, whether the overlay is on it.
Scene(bg, d, overlay) ==
    [bg |-> bg, duration |-> d, overlay |-> OverlayPil(overlay) = "ok"]

\* One call of _media_to_scene_clip.  decodes = the decoder / PIL opened the
\* asset without raising.  Case 1 (gif/video) and case 2 (image) catch every
\* exception and fall through; case 3 (flat colour) is not guarded.
MediaToSceneClipCall(m, decodes, overlay, d) ==
    IF m.type \in {"gif", "video"} /\ m.bytes /\ decodes
       /\ ~CompositeFrameRaises(overlay)
    THEN Returns(Scene("clip", d, overlay))
    ELSE IF m.type = "image" /\ m.bytes /\ decodes
            /\ ~CompositeFrameRaises(overlay)
    THEN Returns(Scene("image", d, overlay))
    ELSE IF CompositeFrameRaises(overlay) THEN Raises
    ELSE Returns(Scene("flat", d, overlay))

\* _media_to_scene_clip: the background of the scene built for one slide whose
\* overlay is the W x H PNG render_overlays produces.
_media_to_scene_clip(m, decodes) ==
    MediaToSceneClipCall(m, decodes, "ok", 0).ret.bg

\* create_reel, the try/except around one scene: on an exception the scene
\* is built again without media, outside any try.
CreateReelScene(m, decodes, overlay, d) ==
    IF MediaToSceneClipCall(m, decodes, overlay, d).raised
    THEN MediaToSceneClipCall(NoMedia, TRUE, overlay, d)
    ELSE MediaToSceneClipCall(m, decodes, overlay, d)

\* create_reel: slide_dur = narr_dur + SLIDE_PADDING, the duration the scene
\* of a slide is built with.
SceneSlideDur(narr_path, fs) ==
    get_audio_duration(narr_path, fs, AudioOf(narr_path)) + SLIDE_PADDING

\* One iteration of the scene loop of create_reel (over media_data).
BuildScene ==
    /\ pc = "scenes"
    /\ LET m == media_data[i + 1]
           loaded == _load_video_clip(files, _temp_files, i)
       IN \E decodes \in BOOLEAN :
            /\ (~m.bytes) => decodes
            /\ scene_clips' = Append(scene_clips,
                   [slide |-> i, bg |-> _media_to_scene_clip(m, decodes),
                    duration |-> SceneSlideDur(narration_paths[i + 1], files)])
            /\ IF m.type \in {"gif", "video"} /\ m.bytes
               THEN files' = loaded[1] /\ _temp_files' = loaded[2]
               ELSE UNCHANGED <<files, _temp_files>>
    /\ i' = IF i + 1 < Len(media_data) THEN i + 1 ELSE 0
    /\ pc' = IF i + 1 < Len(media_data) THEN "scenes" ELSE "intro"
    /\ UNCHANGED <<svars, output, search_log, unit, tts_failed, segment_durs,
                   slides, include_intro, include_bumper, intro_exists,
                   bumper_exists, media_data, narration_paths, segment_files,
                   concat_list, render_failed, cleanup_calls, concat_rc>>

\* ---------------------------------------------------------------- compose_reel

\* seg_intro.mp4 / seg_bumper.mp4 / seg_NN.mp4 / concat.txt / reel.mp4
IntroOut == Path("seg_intro", 0)
BumperOut == Path("seg_bumper", 0)
SegFile(n) == Path("seg", n)
ConcatList == Path("concat", 0)
OutputPath == Path("reel", 0)

\* INTRO block: rendered only when included and present; the decode / encode of
\* the fixed asset is not inside any try, so a failure leaves compose_reel.
Intro ==
    /\ pc = "intro"
    /\ IF include_intro /\ intro_exists
       THEN \E ok \in BOOLEAN :
               IF ok
               THEN /\ files' = files \cup {IntroOut}
                    /\ segment_files' = Append(segment_files, IntroOut)
                    /\ pc' = IF Len(scene_clips) > 0 THEN "render" ELSE "bumper"
               ELSE /\ pc' = "raised"
                    /\ UNCHANGED <<files, segment_files>>
       ELSE /\ pc' = IF Len(scene_clips) > 0 THEN "render" ELSE "bumper"
            /\ UNCHANGED <<files, segment_files>>
    /\ i' = 0
    /\ UNCHANGED <<svars, output, search_log, unit, tts_failed, segment_durs,
                   slides, include_intro, include_bumper, intro_exists,
                   bumper_exists, media_data, narration_paths, scene_clips,
                   concat_list, _temp_files, render_failed, cleanup_calls,
                   concat_rc>>

\* _render_one_scene: slide_dur without the padding.
RenderSlideDurNoPadding(narr_path, fs) ==
    get_audio_duration(narr_path, fs, AudioOf(narr_path))

\* _render_one_scene: slide_dur = narr_dur + SLIDE_PADDING, the duration the
\* scene clip is set to before it is encoded.
RenderSlideDur(narr_path, fs) ==
    get_audio_duration(narr_path, fs, AudioOf(narr_path)) + SLIDE_PADDING

\* _render_one_scene up to write_videofile: the whoosh effect is generated into
\* a fresh temp file and tracked.  Result: <<files, registry>>.
RenderSfx(fs, tracked, n) ==
    <<fs \cup {Path("sfx", n)}, _track_temp(tracked, Path("sfx", n))>>

\* The except branch of the scene loop: what is appended to segment_files when
\* _render_one_scene raised for seg_file (nothing: the warning is logged only).
OnRenderFailure(segs, seg_file) == segs

\* One iteration of the scene loop of compose_reel; encoded = write_videofile
\* returned without raising.
RenderScene ==
    /\ pc = "render"
    /\ LET seg_file == SegFile(i)
           sfx == RenderSfx(files, _temp_files, i)
       IN \E encoded \in BOOLEAN :
            /\ _temp_files' = sfx[2]
            /\ segment_durs' = Append(segment_durs,
                   [slide |-> i,
                    duration |-> RenderSlideDur(narration_paths[i + 1], files)])
            /\ IF encoded
               THEN /\ files' = sfx[1] \cup {seg_file}
                    /\ segment_files' = Append(segment_files, seg_file)
                    /\ render_failed' = render_failed
               ELSE /\ files' = sfx[1]
                    /\ segment_files' = OnRenderFailure(segment_files, seg_file)
                    /\ render_failed' = render_failed \cup {i}
    /\ i' = IF i + 1 < Len(scene_clips) THEN i + 1 ELSE 0
    /\ pc' = IF i + 1 < Len(scene_clips) THEN "render" ELSE "bumper"
    /\ UNCHANGED <<svars, output, search_log, unit, tts_failed,
                   slides, include_intro, include_bumper, intro_exists,
                   bumper_exists, media_data, narration_paths, scene_clips,
                   concat_list, cleanup_calls, concat_rc>>

\* BUMPER block, same shape as the INTRO block.
Bumper ==
    /\ pc = "bumper"
    /\ IF include_bumper /\ bumper_exists
       THEN \E ok \in BOOLEAN :
               IF ok
               THEN /\ files' = files \cup {BumperOut}
                    /\ segment_files' = Append(segment_files, BumperOut)
                    /\ pc' = "concat"
               ELSE /\ pc' = "raised"
                    /\ UNCHANGED <<files, segment_files>>
       ELSE /\ pc' = "concat"
            /\ UNCHANGED <<files, segment_files>>
    /\ UNCHANGED <<svars, output, search_log, unit, tts_failed, segment_durs,
                   slides, include_intro, include_bumper, intro_exists,
                   bumper_exists, media_data, narration_paths, scene_clips,
                   concat_list, _temp_files, i, render_failed, cleanup_calls,
                   concat_rc>>

\* The guard that raises ValueError("no slides to compose").
NothingToCompose(segs) == segs = <<>>

\* compose_reel without the copy fallback: a failed ffmpeg leaves no output.
OutputWithoutFallback(rc, segs) ==
    IF rc = "ok" THEN [kind |-> "concat", parts |-> segs] ELSE NoOutput

\* What output_path holds after ffmpeg returned: the concatenation of the
\* manifest on exit code 0, else a copy of segment_files[0].
OutputAfterConcat(rc, segs) ==
    IF rc = "ok" THEN [kind |-> "concat", parts |-> segs]
    ELSE [kind |-> "copy", parts |-> <<segs[1]>>]

\* `if not segment_files: raise`, then the manifest is written and ffmpeg runs.
\* rc "ok": ffmpeg wrote the output; "fail": non-zero exit code, the first
\* segment is copied to the output; "noexec": subprocess.run itself raised.
Concat ==
    /\ pc = "concat"
    /\ IF NothingToCompose(segment_files)
       THEN /\ pc' = "raised"
            /\ UNCHANGED <<concat_list, files, concat_rc, output>>
       ELSE \E rc \in {"ok", "fail", "noexec"} :
               /\ concat_list' = segment_files
               /\ concat_rc' = rc
               /\ IF rc = "noexec"
                  THEN /\ files' = files \cup {ConcatList}
                       /\ output' = output
                       /\ pc' = "raised"
                  ELSE /\ output' = OutputAfterConcat(rc, segment_files)
                       /\ files' = IF output'.kind = "none"
                                   THEN files \cup {ConcatList}
                                   ELSE files \cup {ConcatList, OutputPath}
                       /\ pc' = "finish"
    /\ UNCHANGED <<svars, search_log, unit, tts_failed, segment_durs,
                   slides, include_intro, include_bumper, intro_exists,
                   bumper_exists, media_data, narration_paths, scene_clips,
                   segment_files, _temp_files, i, render_failed, cleanup_calls>>

\* Tail of compose_reel: segments and manifest are unlinked, then the registry
\* is drained by _cleanup_temp_files() and cleared.
Finish ==
    /\ pc = "finish"
    /\ files' = _cleanup_temp_files(
                   Unlink(files \ Range(segment_files), ConcatList), _temp_files)
    /\ _temp_files' = CleanupRun(files, _temp_files).registry
    /\ cleanup_calls' = cleanup_calls + 1
    /\ pc' = "result"
    /\ UNCHANGED <<svars, output, search_log, unit, tts_failed, segment_durs,
                   slides, include_intro, include_bumper, intro_exists,
                   bumper_exists, media_data, narration_paths, scene_clips,
                   segment_files, concat_list, i, render_failed, concat_rc>>

\* Phase 4 of create_reel: the output file is read and the result returned.
ReadResult ==
    /\ pc = "result"
    /\ OutputPath \in files
    /\ pc' = "done"
    /\ UNCHANGED <<svars, output, search_log, unit, tts_failed, segment_durs,
                   slides, include_intro, include_bumper, intro_exists,
                   bumper_exists, media_data, narration_paths, scene_clips,
                   segment_files, concat_list, files, _temp_files, i,
                   render_failed, cleanup_calls, concat_rc>>

\* ---------------------------------------------------------------- registry calls

\* Largest registry and number of cleanup calls explored for the registry alone.
MaxTracked == 2
MaxCleanups == 2

\* Paths handed to _track_temp in the registry specification.
RegPaths == {Path("media", 0), Path("media", 1), Path("sfx", 0)}

\* The registry driven directly: any of the paths may or may not be on disk.
InitRegistry ==
    /\ pc = "registry"
    /\ slides = <<>>
    /\ include_intro = FALSE
    /\ include_bumper = TRUE
    /\ intro_exists = FALSE
    /\ bumper_exists = FALSE
    /\ media_data = <<>>
    /\ narration_paths = <<>>
    /\ scene_clips = <<>>
    /\ segment_files = <<>>
    /\ concat_list = <<>>
    /\ files \in SUBSET RegPaths
    /\ _temp_files = <<>>
    /\ i = 0
    /\ render_failed = {}
    /\ cleanup_calls = 0
    /\ concat_rc = "none"
    /\ tts_failed = {}
    /\ segment_durs = <<>>
    /\ output = NoOutput
    /\ search_log = <<>>
    /\ last_run = NoRun
    /\ runs = <<>>
    /\ post = NoRequest
    /\ ig = NoRequest
    /\ unit = NoCall

\* A call _track_temp(p): the path is appended and handed back.
RegTrack ==
    /\ pc = "registry"
    /\ Len(_temp_files) < MaxTracked
    /\ \E p \in RegPaths :
          /\ _temp_files' = _track_temp(_temp_files, p)
          /\ unit' = [fn |-> "_track_temp", arg |-> p, ret |-> p,
                      raised |-> FALSE, errors |-> 0, deleted |-> 0]
    /\ UNCHANGED <<svars, output, search_log, pc, slides, include_intro, include_bumper, intro_exists,
                   bumper_exists, media_data, narration_paths, scene_clips,
                   segment_files, concat_list, files, i, render_failed,
                   cleanup_calls, concat_rc, tts_failed, segment_durs>>

\* A call _cleanup_temp_files().
RegCleanup ==
    /\ pc = "registry"
    /\ cleanup_calls < MaxCleanups
    /\ LET r == CleanupRun(files, _temp_files) IN
          /\ files' = r.files
          /\ _temp_files' = r.registry
          /\ unit' = [fn |-> "_cleanup_temp_files", arg |-> NoPath, ret |-> NoPath,
                      raised |-> r.raised, errors |-> r.errors,
                      deleted |-> Cardinality(files \ r.files)]
    /\ cleanup_calls' = cleanup_calls + 1
    /\ UNCHANGED <<svars, output, search_log, pc, slides, include_intro, include_bumper, intro_exists,
                   bumper_exists, media_data, narration_paths, scene_clips,
                   segment_files, concat_list, i, render_failed, concat_rc,
                   tts_failed, segment_durs>>

NextRegistry ==
    \/ RegTrack
    \/ RegCleanup

SpecRegistry == InitRegistry /\ [][NextRegistry]_vars

\* ---------------------------------------------------------------- functions

\* Single functions called directly, outside a run.
MaxDur == 12
MaxAudioDur == 10

\* Everything of the pipeline at rest, at the given control point.
Parked(at) ==
    /\ pc = at
    /\ slides = <<>>
    /\ include_intro = FALSE
    /\ include_bumper = TRUE
    /\ intro_exists = FALSE
    /\ bumper_exists = FALSE
    /\ media_data = <<>>
    /\ narration_paths = <<>>
    /\ scene_clips = <<>>
    /\ segment_files = <<>>
    /\ concat_list = <<>>
    /\ _temp_files = <<>>
    /\ i = 0
    /\ render_failed = {}
    /\ cleanup_calls = 0
    /\ concat_rc = "none"
    /\ tts_failed = {}
    /\ segment_durs = <<>>
    /\ output = NoOutput
    /\ search_log = <<>>
    /\ last_run = NoRun
    /\ runs = <<>>
    /\ post = NoRequest
    /\ ig = NoRequest

\* Audio paths a caller may pass; any of them may or may not be on disk.
AudioPaths == {Path("narration", 0), Path("narration", 1)}

InitFn ==
    /\ Parked("fn")
    /\ files \in SUBSET AudioPaths
    /\ unit = NoCall

\* A call get_audio_duration(audio_path).
CallGetAudioDuration ==
    /\ pc = "fn"
    /\ \E audio_path \in AudioPaths \cup {NoPath},
          probed \in {Audio(FALSE, 0)} \cup {Audio(TRUE, d) : d \in 1..MaxAudioDur} :
          unit' = [fn |-> "get_audio_duration", audio_path |-> audio_path,
                   probed |-> probed,
                   out |-> GetAudioDurationCall(audio_path, files, probed)]
    /\ UNCHANGED pvars

\* A call _load_video_clip(media_bytes, media_info, duration) on an asset of
\* native duration c.
CallLoadVideoClip ==
    /\ pc = "fn"
    /\ \E c \in 1..MaxDur, d \in 1..MaxDur, strict \in BOOLEAN :
          unit' = [fn |-> "_load_video_clip", c |-> c, duration |-> d,
                   strict |-> strict, out |-> LoadVideoClipCall(c, d, strict)]
    /\ UNCHANGED pvars

\* One iteration of the scene loop of create_reel on arbitrary arguments.
CallCreateReelScene ==
    /\ pc = "fn"
    /\ \E m \in {Media(b, t) : b \in BOOLEAN, t \in {"gif", "video", "image"}}
                 \cup {NoMedia},
          decodes \in BOOLEAN, overlay \in Overlays, d \in 1..MaxDur :
          /\ (~m.bytes) => decodes
          /\ unit' = [fn |-> "create_reel.scene", media |-> m,
                      decodes |-> decodes, overlay |-> overlay, duration |-> d,
                      out |-> CreateReelScene(m, decodes, overlay, d)]
    /\ UNCHANGED pvars

\* One slide from the search result to its scene: the sourcing loop records
\* the result, create_reel builds the scene of the recorded entry; next to it,
\* _media_to_scene_clip called on the result as search_and_download returned it.
CallSourceThenScene ==
    /\ pc = "fn"
    /\ \E r \in {Media(b, t) : b \in BOOLEAN, t \in {"gif", "video", "image"}}
                 \cup {NoMedia},
          decodes \in BOOLEAN, overlay \in {"none", "ok"}, d \in 1..MaxDur :
          unit' = [fn |-> "render_reels_page.slide", result |-> r,
                   decodes |-> decodes, overlay |-> overlay, duration |-> d,
                   recorded |-> Recorded(r),
                   scene |-> CreateReelScene(Recorded(r), decodes, overlay, d),
                   direct |-> MediaToSceneClipCall(r, decodes, overlay, d)]
    /\ UNCHANGED pvars

NextFn ==
    \/ CallGetAudioDuration
    \/ CallLoadVideoClip
    \/ CallCreateReelScene
    \/ CallSourceThenScene

SpecFn == InitFn /\ [][NextFn]_vars

\* ---------------------------------------------------------------- media_source

MaxWords == 2

\* The four providers and the URLs they may list.
Providers == {"tenor", "giphy", "pexels", "unsplash"}
Urls == {"u1", "u2"}

\* What a provider answers: a list of results without repeats, possibly empty.
CandidateLists ==
    {<<>>} \cup {<<u>> : u \in Urls}
           \cup {<<uv[1], uv[2]>> : uv \in {w \in Urls \X Urls : w[1] # w[2]}}

\* What one search can meet: no API key configured, a non-200 response, an
\* exception in requests.get / resp.json(), or a list of results.
ProviderOutcomes ==
    {[status |-> st, results |-> <<>>] : st \in {"nokey", "non200", "exception"}}
        \cup {[status |-> "ok", results |-> c] : c \in CandidateLists}
Apis == [Providers -> ProviderOutcomes]

\* The metadata dict of one result.
MediaTypeOf(p) ==
    IF p \in {"tenor", "giphy"} THEN "gif"
    ELSE IF p = "pexels" THEN "video" ELSE "image"
Asset(p, u) == [type |-> MediaTypeOf(p), source |-> p, url |-> u]
NoAsset == [type |-> "none", source |-> "none", url |-> "none"]

\* Queries are lists of lower-case words; "funny" is one of the reaction words.
Words == {"sleep", "funny"}
ReactionWords == {"funny"}
Queries == UNION {[1..n -> Words] : n \in 1..MaxWords}
DefaultImageQuery == <<"health", "wellness", "lifestyle">>

\* _clean_query_for_image: the reaction words are dropped; a query made of
\* reaction words only becomes "health wellness lifestyle".
_clean_query_for_image(query) ==
    IF SelectSeq(query, LAMBDA w : w \notin ReactionWords) = <<>>
    THEN DefaultImageQuery
    ELSE SelectSeq(query, LAMBDA w : w \notin ReactionWords)

\* A provider search whose try/except is missing: the exception escapes.
SearchProviderNoExcept(p, api) ==
    IF api[p].status = "nokey" THEN [raised |-> FALSE, ret |-> <<>>, requests |-> 0]
    ELSE IF api[p].status = "non200"
    THEN [raised |-> FALSE, ret |-> <<>>, requests |-> 1]
    ELSE IF api[p].status = "exception"
    THEN [raised |-> TRUE, ret |-> <<>>, requests |-> 1]
    ELSE [raised |-> FALSE,
          ret |-> [k \in 1..Len(api[p].results) |-> Asset(p, api[p].results[k])],
          requests |-> 1]

\* search_tenor / search_giphy / search_pexels_video / search_unsplash_portrait:
\* [] without a request when the key is missing, [] after one request on a
\* non-200 response or an exception, else the listed results.
SearchProvider(p, api) ==
    IF api[p].status = "nokey" THEN [raised |-> FALSE, ret |-> <<>>, requests |-> 0]
    ELSE IF api[p].status \in {"non200", "exception"}
    THEN [raised |-> FALSE, ret |-> <<>>, requests |-> 1]
    ELSE [raised |-> FALSE,
          ret |-> [k \in 1..Len(api[p].results) |-> Asset(p, api[p].results[k])],
          requests |-> 1]

\* search_media before its first search.
NotTried ==
    [raised |-> FALSE, ret |-> NoAsset, trace |-> <<>>, requests |-> 0,
     candidates |-> <<>>]

\* One "results = search_x(q); if results: return results[0]" step of
\* search_media: skipped once an earlier step returned (or raised).
ThenSearch(prev, p, q, api) ==
    IF prev.raised \/ prev.ret # NoAsset THEN prev
    ELSE [raised |-> SearchProvider(p, api).raised,
          ret |-> IF SearchProvider(p, api).ret # <<>>
                  THEN SearchProvider(p, api).ret[1] ELSE NoAsset,
          trace |-> Append(prev.trace, [provider |-> p, query |-> q]),
          requests |-> prev.requests + SearchProvider(p, api).requests,
          candidates |-> SearchProvider(p, api).ret]

\* search_media asking GIPHY before Tenor.
SearchMediaGiphyFirst(query, preferred_type, api) ==
    LET gif == IF preferred_type = "gif"
               THEN ThenSearch(ThenSearch(NotTried, "giphy", query, api),
                               "tenor", query, api)
               ELSE NotTried
        video == IF preferred_type = "video"
                 THEN ThenSearch(gif, "pexels", query, api)
                 ELSE gif
    IN ThenSearch(video, "unsplash", _clean_query_for_image(query), api)

\* search_media: Tenor then GIPHY for a gif, Pexels for a video, and Unsplash
\* with the cleaned query for whatever is still unanswered.
SearchMediaCall(query, preferred_type, api) ==
    LET gif == IF preferred_type = "gif"
               THEN ThenSearch(ThenSearch(NotTried, "tenor", query, api),
                               "giphy", query, api)
               ELSE NotTried
        video == IF preferred_type = "video"
                 THEN ThenSearch(gif, "pexels", query, api)
                 ELSE gif
    IN ThenSearch(video, "unsplash", _clean_query_for_image(query), api)

\* download_media: the bytes on a 200 response, None on any other response
\* and on an exception; one request.
DownloadOutcomes == {"ok", "non200", "exception"}
download_media(media, download) == download = "ok"

\* search_and_download: (None, None) when nothing was found, else the download
\* result (bytes or None) with the metadata.
SearchAndDownloadCall(query, preferred_type, api, download) ==
    LET m == SearchMediaCall(query, preferred_type, api) IN
    IF m.raised
    THEN [raised |-> TRUE, data |-> FALSE, media |-> NoAsset,
          trace |-> m.trace, requests |-> m.requests, downloads |-> 0,
          candidates |-> m.candidates]
    ELSE IF m.ret = NoAsset
    THEN [raised |-> FALSE, data |-> FALSE, media |-> NoAsset,
          trace |-> m.trace, requests |-> m.requests, downloads |-> 0,
          candidates |-> m.candidates]
    ELSE [raised |-> FALSE, data |-> download_media(m.ret, download),
          media |-> m.ret,
          trace |-> m.trace, requests |-> m.requests, downloads |-> 1,
          candidates |-> m.candidates]

\* The arguments of a call and the providers' answers to it are drawn first.
InitMedia ==
    /\ Parked("media")
    /\ files = {}
    /\ unit \in [fn : {"args"}, query : Queries,
                 preferred_type : {"gif", "video", "image"},
                 api : Apis, download : DownloadOutcomes]

\* A call search_media(query, preferred_type).
CallSearchMedia ==
    /\ pc = "media"
    /\ unit.fn = "args"
    /\ unit' = [fn |-> "search_media", query |-> unit.query,
                preferred_type |-> unit.preferred_type, api |-> unit.api,
                download |-> unit.download,
                out |-> SearchMediaCall(unit.query, unit.preferred_type,
                                        unit.api)]
    /\ UNCHANGED pvars

\* A call search_and_download(query, preferred_type).
CallSearchAndDownload ==
    /\ pc = "media"
    /\ unit.fn = "args"
    /\ unit' = [fn |-> "search_and_download", query |-> unit.query,
                preferred_type |-> unit.preferred_type, api |-> unit.api,
                download |-> unit.download,
                out |-> SearchAndDownloadCall(unit.query, unit.preferred_type,
                                              unit.api, unit.download)]
    /\ UNCHANGED pvars

NextMedia ==
    \/ CallSearchMedia
    \/ CallSearchAndDownload

SpecMedia == InitMedia /\ [][NextMedia]_vars

\* ---------------------------------------------------------------- sourcing loop

\* The sourcing loop of render_reels_page run on its own, the providers
\* answering each search with some list of results.
InitSourcing ==
    /\ Parked("sourcing")
    /\ files = {}
    /\ unit = NoCall

\* What the loop appends for a slide: (m_bytes, m_info) when both are there,
\* (None, None) otherwise.
RecordedAsset(r) ==
    IF r.data /\ r.media # NoAsset
    THEN [data |-> TRUE, media |-> r.media]
    ELSE [data |-> FALSE, media |-> NoAsset]

\* One iteration of the loop: a slide without a query and a closing slide get
\* (None, None) without a search (has_query = FALSE); any other slide gets
\* what search_and_download returns for it.
SourceReelSlide ==
    /\ pc = "sourcing"
    /\ Len(media_data) < MaxSlides
    /\ \E has_query \in BOOLEAN, preferred_type \in {"gif", "video", "image"},
          api \in [Providers -> {o \in ProviderOutcomes : o.status = "ok"}],
          download \in {"ok", "non200"} :
          LET r == SearchAndDownloadCall(<<"sleep">>, preferred_type, api,
                                         download)
          IN IF has_query
             THEN /\ media_data' = Append(media_data, RecordedAsset(r))
                  /\ unit' = [fn |-> "render_reels_page", out |-> r]
             ELSE /\ media_data' = Append(media_data,
                                         [data |-> FALSE, media |-> NoAsset])
                  /\ unit' = NoCall
    /\ UNCHANGED <<svars, output, search_log, pc, slides, include_intro, include_bumper, intro_exists,
                   bumper_exists, narration_paths, scene_clips, segment_files,
                   concat_list, files, _temp_files, i, render_failed,
                   cleanup_calls, concat_rc, tts_failed, segment_durs>>

NextSourcing == SourceReelSlide

SpecSourcing == InitSourcing /\ [][NextSourcing]_vars

\* ---------------------------------------------------------------- a four-slide script

\* A script of four slides: hook, two content slides, closing.
FourSlideScript ==
    << Slide("hook", FALSE, FALSE), Slide("content", TRUE, TRUE),
       Slide("content", TRUE, TRUE), Slide("closing", TRUE, TRUE) >>

\* The run right after the button was pressed on the four-slide script.
InitFourSlides ==
    /\ pc = "source"
    /\ slides = FourSlideScript
    /\ include_intro \in BOOLEAN
    /\ include_bumper \in BOOLEAN
    /\ intro_exists = TRUE
    /\ bumper_exists = TRUE
    /\ media_data = <<>>
    /\ narration_paths = <<>>
    /\ scene_clips = <<>>
    /\ segment_files = <<>>
    /\ concat_list = <<>>
    /\ files = {}
    /\ _temp_files = <<>>
    /\ i = 0
    /\ render_failed = {}
    /\ cleanup_calls = 0
    /\ concat_rc = "none"
    /\ tts_failed = {}
    /\ segment_durs = <<>>
    /\ output = NoOutput
    /\ search_log = <<>>
    /\ last_run = NoRun
    /\ runs = <<>>
    /\ post = NoRequest
    /\ ig = NoRequest
    /\ unit = NoCall

NextFourSlides ==
    \/ SourceSlide
    \/ NarrateSlide
    \/ BuildScene
    \/ Intro
    \/ RenderScene
    \/ Bumper
    \/ Concat
    \/ Finish
    \/ ReadResult

SpecFourSlides == InitFourSlides /\ [][NextFourSlides]_vars

\* ---------------------------------------------------------------- overlapping runs

\* Two runs of create_reel in one process (two sessions of the UI), every
\* slide of each with a downloaded gif.  They share the disk and the
\* module-level _temp_files; everything else is local to a run.
RunIds == {1, 2}
IdleRun == [pc |-> "idle", i |-> 0, lost |-> {}]

\* The temp file _load_video_clip creates for slide n of run r.
RunMedia(r, n) == (r - 1) * MaxSlides + n

InitOverlap ==
    /\ pc = "overlap"
    /\ slides = <<>>
    /\ include_intro = FALSE
    /\ include_bumper = TRUE
    /\ intro_exists = FALSE
    /\ bumper_exists = FALSE
    /\ media_data = <<>>
    /\ narration_paths = <<>>
    /\ scene_clips = <<>>
    /\ segment_files = <<>>
    /\ concat_list = <<>>
    /\ files = {}
    /\ _temp_files = <<>>
    /\ i = 0
    /\ render_failed = {}
    /\ cleanup_calls = 0
    /\ concat_rc = "none"
    /\ tts_failed = {}
    /\ segment_durs = <<>>
    /\ output = NoOutput
    /\ search_log = <<>>
    /\ last_run = NoRun
    /\ runs = [r \in RunIds |-> IdleRun]
    /\ post = NoRequest
    /\ ig = NoRequest
    /\ unit = NoCall

\* What a step of one of the overlapping runs leaves alone.
OverlapRest ==
    UNCHANGED <<pc, slides, include_intro, include_bumper, intro_exists,
                bumper_exists, media_data, narration_paths, scene_clips,
                segment_files, concat_list, i, render_failed, cleanup_calls,
                concat_rc, tts_failed, segment_durs, unit, output,
                search_log, last_run, post, ig>>

\* create_reel is entered by a run.
RunStart ==
    /\ pc = "overlap"
    /\ \E r \in RunIds :
          /\ runs[r].pc = "idle"
          /\ runs' = [runs EXCEPT ![r].pc = "scenes"]
    /\ UNCHANGED <<files, _temp_files>>
    /\ OverlapRest

\* A run builds the scene of its next slide: _load_video_clip writes and
\* registers the temp file.
RunBuildScene ==
    /\ pc = "overlap"
    /\ \E r \in RunIds :
          /\ runs[r].pc = "scenes"
          /\ files' =
                _load_video_clip(files, _temp_files, RunMedia(r, runs[r].i))[1]
          /\ _temp_files' =
                _load_video_clip(files, _temp_files, RunMedia(r, runs[r].i))[2]
          /\ runs' = [runs EXCEPT
                  ![r].i = IF runs[r].i + 1 < MaxSlides THEN runs[r].i + 1 ELSE 0,
                  ![r].pc = IF runs[r].i + 1 < MaxSlides THEN "scenes"
                            ELSE "render"]
    /\ OverlapRest

\* A run renders the segment of its next slide: the decoder reads the temp
\* file now; a file that is gone is lost to the segment.
RunRenderScene ==
    /\ pc = "overlap"
    /\ \E r \in RunIds :
          /\ runs[r].pc = "render"
          /\ runs' = [runs EXCEPT
                  ![r].lost = IF Path("media", RunMedia(r, runs[r].i)) \in files
                              THEN runs[r].lost
                              ELSE runs[r].lost \cup {runs[r].i},
                  ![r].i = IF runs[r].i + 1 < MaxSlides THEN runs[r].i + 1 ELSE 0,
                  ![r].pc = IF runs[r].i + 1 < MaxSlides THEN "render"
                            ELSE "cleanup"]
    /\ UNCHANGED <<files, _temp_files>>
    /\ OverlapRest

\* A run reaches the tail of compose_reel: _cleanup_temp_files().
RunCleanup ==
    /\ pc = "overlap"
    /\ \E r \in RunIds :
          /\ runs[r].pc = "cleanup"
          /\ runs' = [runs EXCEPT ![r].pc = "done"]
    /\ files' = _cleanup_temp_files(files, _temp_files)
    /\ _temp_files' = CleanupRun(files, _temp_files).registry
    /\ OverlapRest

NextOverlap ==
    \/ RunStart
    \/ RunBuildScene
    \/ RunRenderScene
    \/ RunCleanup

SpecOverlap == InitOverlap /\ [][NextOverlap]_vars

\* ---------------------------------------------------------------- frame fitting

\* The reel frame.
W == 1080
H == 1920

\* Sizes (width, height) of the clips handed to the fitting functions.
SourceWidths == {640, 720, 1000, 1080, 1280, 1920, 3840}
SourceHeights == {333, 480, 720, 1080, 1280, 1920, 2160}

\* A clip after fitting: the correction applied, the size the source was
\* resized to, the rows of background above and below it, and the columns and
\* rows of the resized source that the crop cut away.
Fitted(kind, new_w, new_h, top, bottom, cut_w, cut_h) ==
    [kind |-> kind, placed |-> <<new_w, new_h>>, top |-> top,
     bottom |-> bottom, cut |-> <<cut_w, cut_h>>]

\* _letterbox_landscape rounding the height to the nearest pixel.
LetterboxRounded(cw, ch) ==
    LET new_h == (2 * ch * W + cw) \div (2 * cw)
        y_offset == (H - new_h) \div 2
    IN Fitted("letterbox", W, new_h, y_offset, H - new_h - y_offset, 0, 0)

\* _letterbox_landscape: new_h = int(ch * (W / cw)), y_offset = (H - new_h) // 2,
\* the resized clip composited on an H x W brand-colour background.
_letterbox_landscape(cw, ch) ==
    LET new_h == (ch * W) \div cw
        y_offset == (H - new_h) \div 2
    IN Fitted("letterbox", W, new_h, y_offset, H - new_h - y_offset, 0, 0)

\* _fit_clip_to_reel: resized to cover the frame, then centre-cropped to W x H.
_fit_clip_to_reel(cw, ch) ==
    IF cw * H > W * ch
    THEN Fitted("crop", (cw * H) \div ch, H, 0, 0, ((cw * H) \div ch) - W, 0)
    ELSE Fitted("crop", W, (ch * W) \div cw, 0, 0, 0, ((ch * W) \div cw) - H)

\* The clip written as it was read.
Unfitted(cw, ch) == Fitted("none", cw, ch, 0, 0, 0, 0)

\* compose_reel, intro: letterbox when landscape, else fit unless W x H.
IntroCorrection(iw, ih) ==
    IF iw > ih THEN _letterbox_landscape(iw, ih)
    ELSE IF <<iw, ih>> # <<W, H>> THEN _fit_clip_to_reel(iw, ih)
    ELSE Unfitted(iw, ih)

\* The bumper block cropping every source that is not W x H.
BumperCorrectionAlwaysFit(bw, bh) ==
    IF <<bw, bh>> # <<W, H>> THEN _fit_clip_to_reel(bw, bh)
    ELSE Unfitted(bw, bh)

\* compose_reel, bumper: unless W x H, letterbox when landscape, else fit.
BumperCorrection(bw, bh) ==
    IF <<bw, bh>> # <<W, H>>
    THEN IF bw > bh THEN _letterbox_landscape(bw, bh)
         ELSE _fit_clip_to_reel(bw, bh)
    ELSE Unfitted(bw, bh)

\* The intro / bumper block of compose_reel: a segment only when the asset
\* is included and its file exists.
NoSegment == [segment |-> FALSE, clip |-> Unfitted(0, 0)]
IntroSegment(include, exists, iw, ih) ==
    IF include /\ exists
    THEN [segment |-> TRUE, clip |-> IntroCorrection(iw, ih)]
    ELSE NoSegment
BumperSegment(include, exists, bw, bh) ==
    IF include /\ exists
    THEN [segment |-> TRUE, clip |-> BumperCorrection(bw, bh)]
    ELSE NoSegment

\* The size of the source and the two switches of a fixed asset are drawn first.
InitFrame ==
    /\ Parked("frame")
    /\ files = {}
    /\ unit \in [fn : {"args"}, cw : SourceWidths, ch : SourceHeights,
                 include : BOOLEAN, exists : BOOLEAN]

\* A call _letterbox_landscape(clip) on a landscape clip.
CallLetterboxLandscape ==
    /\ pc = "frame"
    /\ unit.fn = "args"
    /\ unit.cw > unit.ch
    /\ unit' = [fn |-> "_letterbox_landscape", cw |-> unit.cw, ch |-> unit.ch,
                include |-> unit.include, exists |-> unit.exists,
                out |-> _letterbox_landscape(unit.cw, unit.ch)]
    /\ UNCHANGED pvars

\* The intro block and the bumper block of compose_reel on a source of the
\* same size, with the same switches.
CallFixedAssets ==
    /\ pc = "frame"
    /\ unit.fn = "args"
    /\ unit' = [fn |-> "compose_reel", cw |-> unit.cw, ch |-> unit.ch,
                include |-> unit.include, exists |-> unit.exists,
                out |-> [intro |-> IntroSegment(unit.include, unit.exists,
                                                unit.cw, unit.ch),
                         bumper |-> BumperSegment(unit.include, unit.exists,
                                                  unit.cw, unit.ch)]]
    /\ UNCHANGED pvars

NextFrame ==
    \/ CallLetterboxLandscape
    \/ CallFixedAssets

SpecFrame == InitFrame /\ [][NextFrame]_vars

Next ==
    \/ Start
    \/ SourceSlide
    \/ NarrateSlide
    \/ BuildScene
    \/ Intro
    \/ RenderScene
    \/ Bumper
    \/ Concat
    \/ Finish
    \/ ReadResult

Spec == Init /\ [][Next]_vars

\* ================================================================ properties

\* The run has left compose_reel with a manifest written (ffmpeg was invoked).
ManifestWritten == concat_rc # "none"

\* compose_reel returned normally (pc is past the cleanup tail).
Returned == pc \in {"result", "done"}

\* The run is over: the caller got a result or an exception.
Terminal == pc \in {"done", "raised"}

IntroUsed == include_intro /\ intro_exists
BumperUsed == include_bumper /\ bumper_exists

\* A timeline stripped of the fixed intro / bumper segments.
SlideSegments(timeline) == SelectSeq(timeline, LAMBDA f : f.k = "seg")

\* [intro?] ++ [seg_0 .. seg_{n-1}] ++ [bumper?]
ExpectedTimeline(n) ==
    (IF IntroUsed THEN <<IntroOut>> ELSE <<>>)
      \o [k \in 1..n |-> SegFile(k - 1)]
      \o (IF BumperUsed THEN <<BumperOut>> ELSE <<>>)

\* Slide n's media was materialized to a temp file by _load_video_clip.
Materialized(n) ==
    /\ n < Len(scene_clips)
    /\ media_data[n + 1].bytes
    /\ media_data[n + 1].type \in {"gif", "video"}

\* C1: for N >= 1 scenes the manifest is exactly
\* [intro?] ++ [seg_0 .. seg_{N-1}] ++ [bumper?], so that stripped of intro and
\* bumper it is the input slide order with no omission.
C1_ManifestIsSlideOrder ==
    (ManifestWritten /\ Len(scene_clips) >= 1)
        => concat_list = ExpectedTimeline(Len(scene_clips))

\* C2: a slide whose segment render raised is not skipped: position n of the
\* timeline (intro and bumper aside) still holds a segment for slide n.
C2_FailedSlideKeepsPosition ==
    ManifestWritten =>
        \A n \in render_failed :
            /\ n + 1 <= Len(SlideSegments(concat_list))
            /\ SlideSegments(concat_list)[n + 1] = SegFile(n)

\* C3: when sourcing yields no media for every slide, there is one non-null
\* scene per slide and the final timeline has exactly one segment per slide.
C3_NullSourcingOneSegmentPerSlide ==
    (/\ ManifestWritten
     /\ Len(slides) >= 1
     /\ \A k \in 1..Len(media_data) : media_data[k] = NoMedia)
        => /\ Len(scene_clips) = Len(slides)
           /\ \A k \in 1..Len(scene_clips) : scene_clips[k].bg = "flat"
           /\ Len(SlideSegments(concat_list)) = Len(slides)

\* C4: with at least one slide, create_reel never raises to the caller.
C4_NeverRaisesWithSlides ==
    Len(slides) >= 1 => pc # "raised"

\* C5: with no slides at all the pipeline raises and returns no video, whether
\* or not intro / bumper are present and included.
C5_NoSlidesRaises ==
    (pc # "idle" /\ Len(slides) = 0) => pc \notin {"finish", "result", "done"}

\* C6: in every run, successful or failed, the registry cleanup runs exactly
\* once, and never before the assembler ran.
C6_CleanupExactlyOnce ==
    /\ Terminal => cleanup_calls = 1
    /\ cleanup_calls > 0 => ManifestWritten

\* C7: a temp media file materialized by _load_video_clip stays on disk until
\* every segment has been encoded: it is still there in every state up to and
\* including the one the cleanup tail of compose_reel starts from.
C7_MediaKeptUntilRendered ==
    ~Returned =>
        \A n \in 0..(Len(scene_clips) - 1) :
            Materialized(n) => Path("media", n) \in files

\* C7 witness: all segments are encoded, the concat ran, and the materialized
\* media of slide 0 is still on disk.
C7_Witness ==
    /\ pc = "finish"
    /\ Materialized(0)
    /\ scene_clips[1].bg = "clip"
    /\ SegFile(0) \in Range(segment_files)
    /\ Path("media", 0) \in files

\* C8: after a successful run nothing but the delivered video is left on disk
\* (no narration audio, segment, manifest or materialized media).
C8_NoFilesAfterSuccess ==
    (pc = "done" /\ concat_rc = "ok" /\ render_failed = {})
        => files \subseteq {OutputPath}

\* C9: when the encoder crashes on exactly one segment of a run that tracked a
\* materialized media file, and nothing else fails, the run still reaches
\* cleanup and no tracked temp file is left.
C9_CrashStillCleansUp ==
    (/\ Terminal
     /\ Cardinality(render_failed) = 1
     /\ \E n \in 0..(Len(scene_clips) - 1) : Materialized(n)
     /\ ~IntroUsed /\ ~BumperUsed
     /\ concat_rc # "noexec")
        => /\ cleanup_calls >= 1
           /\ \A n \in 0..(Len(scene_clips) - 1) :
                 /\ Path("media", n) \notin files
                 /\ Path("sfx", n) \notin files

\* C10: every temp file the run has created (everything on disk but the
\* delivered video) is in the registry from its creation until the drain.
C10_EveryTempFileRegistered ==
    ~Returned => \A f \in files \ {OutputPath} : f \in Range(_temp_files)

\* C11: _track_temp(p) appends p to the registry, returns p and touches no
\* file; _cleanup_temp_files() removes every tracked path from disk, swallows
\* each failing unlink without raising and leaves the registry empty, so a
\* second call changes nothing.
C11_RegistryContract ==
    [][ /\ unit'.fn = "_track_temp" =>
              /\ _temp_files' = Append(_temp_files, unit'.arg)
              /\ unit'.ret = unit'.arg
              /\ files' = files
        /\ unit'.fn = "_cleanup_temp_files" =>
              /\ ~unit'.raised
              /\ \A p \in Range(_temp_files) : p \notin files'
              /\ \A p \in files : p \notin Range(_temp_files) => p \in files'
              /\ _temp_files' = <<>>
              /\ (_temp_files = <<>> => files' = files)
      ]_vars

\* C11 witness: a cleanup that swallowed an unlink error (a tracked path was
\* not on disk) and still deleted another tracked path and cleared the registry.
C11_Witness ==
    /\ pc = "registry"
    /\ unit.fn = "_cleanup_temp_files"
    /\ ~unit.raised
    /\ unit.errors >= 1
    /\ unit.deleted >= 1
    /\ _temp_files = <<>>

\* C12: a segment file is deleted only after the final assembly succeeded: when
\* the ffmpeg concat failed, every rendered segment is still on disk.
C12_SegmentsKeptOnConcatFailure ==
    concat_rc = "fail" => Range(segment_files) \subseteq files

\* The narration duration of slide k (1-based): the length of the synthesized
\* speech, or 3.0 s when the slide has no narration file.
NarrationDuration(k) ==
    IF narration_paths[k] = NoPath THEN DefaultAudioDur ELSE TtsDuration(slides[k])

\* C13: for every slide the duration its scene is built with and the duration
\* its segment is clamped to are both narration_duration + SLIDE_PADDING.
C13_SceneAndSegmentDurationsAgree ==
    /\ \A k \in 1..Len(scene_clips) :
          scene_clips[k].duration = NarrationDuration(k) + SLIDE_PADDING
    /\ \A j \in 1..Len(segment_durs) :
          /\ segment_durs[j].duration
                = NarrationDuration(segment_durs[j].slide + 1) + SLIDE_PADDING
          /\ segment_durs[j].duration
                = scene_clips[segment_durs[j].slide + 1].duration

\* C13 witness: two segments clamped, one of a narrated slide (4.2 s + 0.5 s)
\* and one of a slide without narration (3.0 s + 0.5 s).
C13_Witness ==
    /\ Len(segment_durs) = 2
    /\ segment_durs[1].duration = 47
    /\ segment_durs[2].duration = 35
    /\ scene_clips[1].duration = 47
    /\ scene_clips[2].duration = 35

\* C15: generate_narrations never aborts and returns one entry per slide, in
\* slide order: "" for a slide with empty narration or a failed synthesis, the
\* slide's audio path otherwise, also after an earlier slide failed.
C15_OneNarrationEntryPerSlide ==
    /\ pc = "narrate" => Len(narration_paths) = i
    /\ pc \in {"scenes", "intro", "render", "bumper", "concat", "finish",
               "result", "done", "raised"} =>
          /\ Len(narration_paths) = Len(slides)
          /\ \A k \in 1..Len(slides) :
                narration_paths[k] =
                    IF ~slides[k].narration \/ (k - 1) \in tts_failed
                    THEN NoPath ELSE Path("narration", k - 1)

\* C15 witness: synthesis failed for slide 0 and slide 1 was still synthesized.
C15_Witness ==
    /\ pc = "scenes"
    /\ tts_failed = {0}
    /\ narration_paths = <<NoPath, Path("narration", 1)>>

\* C14: get_audio_duration never raises; it returns exactly 3.0 for an empty
\* path, a path that is not on disk and a file whose audio cannot be opened,
\* and the file's duration otherwise.
C14_ProbeDurationDefault ==
    unit.fn = "get_audio_duration" =>
        /\ ~unit.out.raised
        /\ unit.out.ret =
              IF \/ unit.audio_path = NoPath
                 \/ unit.audio_path \notin files
                 \/ ~unit.probed.ok
              THEN 30 ELSE unit.probed.duration

\* C14 witness: the file is on disk but cannot be opened and 3.0 came back.
C14_Witness ==
    /\ unit.fn = "get_audio_duration"
    /\ unit.audio_path \in files
    /\ ~unit.probed.ok
    /\ unit.out = Returns(30)

C20_LoadedClipLastsDuration ==
    unit.fn = "_load_video_clip" =>
        /\ ~unit.out.raised
        /\ unit.out.ret.duration = unit.duration
        /\ unit.out.ret.material >= unit.duration

\* The provider answered the search with at least one result.
Answered(api, p) == api[p].status = "ok" /\ api[p].results # <<>>

\* C16: search_and_download never raises whatever the providers and the
\* download do; when no provider of the chain answers it returns (None, None);
\* no provider is asked twice and the download is requested at most once.
C16_AcquisitionNeverRaises ==
    unit.fn = "search_and_download" =>
        /\ ~unit.out.raised
        /\ (\A k \in 1..Len(unit.out.trace) :
               ~Answered(unit.api, unit.out.trace[k].provider))
              => /\ unit.out.data = FALSE
                 /\ unit.out.media = NoAsset
        /\ \A j, k \in 1..Len(unit.out.trace) :
              unit.out.trace[j].provider = unit.out.trace[k].provider => j = k
        /\ unit.out.requests <= Len(unit.out.trace)
        /\ unit.out.downloads <= 1
        /\ (unit.out.data => unit.download = "ok" /\ unit.out.media # NoAsset)

\* C16 witness: a gif search where Tenor raised, GIPHY answered non-200 and
\* Unsplash has no key: three searches, two requests, (None, None).
C16_Witness ==
    /\ unit.fn = "search_and_download"
    /\ unit.preferred_type = "gif"
    /\ unit.api["tenor"].status = "exception"
    /\ unit.api["giphy"].status = "non200"
    /\ unit.api["unsplash"].status = "nokey"
    /\ Len(unit.out.trace) = 3
    /\ unit.out.requests = 2
    /\ unit.out.media = NoAsset
    /\ ~unit.out.raised

\* The first two keywords of a query.
FirstTwoKeywords(query) ==
    SubSeq(query, 1, IF Len(query) < 2 THEN Len(query) ELSE 2)

\* C17 as stated: every attempt goes to the provider of the first attempt, the
\* first with the full query and the second with its first two keywords.
C17_SameProviderShortenedQuery ==
    unit.fn = "search_media" =>
        /\ unit.out.trace[1].query = unit.query
        /\ \A k \in 2..Len(unit.out.trace) :
              unit.out.trace[k].provider = unit.out.trace[1].provider
        /\ Len(unit.out.trace) >= 2 =>
              unit.out.trace[2].query = FirstTwoKeywords(unit.query)

\* The searches search_media is documented to make for a preferred kind.
DocumentedOrder(query, preferred_type) ==
    IF preferred_type = "gif"
    THEN << [provider |-> "tenor", query |-> query],
            [provider |-> "giphy", query |-> query],
            [provider |-> "unsplash", query |-> _clean_query_for_image(query)] >>
    ELSE IF preferred_type = "video"
    THEN << [provider |-> "pexels", query |-> query],
            [provider |-> "unsplash", query |-> _clean_query_for_image(query)] >>
    ELSE << [provider |-> "unsplash", query |-> _clean_query_for_image(query)] >>

\* C17 amended: the searches made are a beginning of Tenor, GIPHY, Unsplash
\* (gif), Pexels, Unsplash (video) or Unsplash (image), with the full query
\* except for Unsplash, which gets the query without reaction words; every
\* search but the last found nothing; the answer is the top result of the last
\* search, or no asset after the whole order found nothing.
C17_ProviderFallbackOrder ==
    unit.fn = "search_media" =>
        LET tr == unit.out.trace
            order == DocumentedOrder(unit.query, unit.preferred_type)
        IN /\ ~unit.out.raised
           /\ Len(tr) \in 1..Len(order)
           /\ \A k \in 1..Len(tr) : tr[k] = order[k]
           /\ \A k \in 1..(Len(tr) - 1) : ~Answered(unit.api, tr[k].provider)
           /\ IF Answered(unit.api, tr[Len(tr)].provider)
              THEN unit.out.ret = Asset(tr[Len(tr)].provider,
                                        unit.api[tr[Len(tr)].provider].results[1])
              ELSE Len(tr) = Len(order) /\ unit.out.ret = NoAsset

\* C17 witness: a gif search for "funny sleep" that Tenor did not answer and
\* GIPHY did: two searches with the full query, GIPHY's top result returned.
C17_Witness ==
    /\ unit.fn = "search_media"
    /\ unit.preferred_type = "gif"
    /\ unit.query = <<"funny", "sleep">>
    /\ unit.out.trace = << [provider |-> "tenor", query |-> <<"funny", "sleep">>],
                           [provider |-> "giphy", query |-> <<"funny", "sleep">>] >>
    /\ unit.out.ret = Asset("giphy", "u2")

\* URLs of the assets recorded for the slides before the latest one.
UsedUrls ==
    {media_data[k].media.url :
        k \in {j \in 1..(Len(media_data) - 1) : media_data[j].media # NoAsset}}

\* C18: the asset resolved for a slide has the URL of an earlier slide's asset
\* only when every candidate returned for the slide is already used.
C18_NoRepeatedAssetUrl ==
    (/\ pc = "sourcing"
     /\ unit.fn = "render_reels_page"
     /\ media_data[Len(media_data)].media # NoAsset
     /\ media_data[Len(media_data)].media.url \in UsedUrls)
        => \A k \in 1..Len(unit.out.candidates) :
              unit.out.candidates[k].url \in UsedUrls

\* C21: when ffmpeg exits non-zero compose_reel does not raise: output_path
\* holds a copy of the first rendered segment of the timeline and the run
\* goes on to return the output path.
C21_ConcatFailureFallsBackToFirstSegment ==
    concat_rc = "fail" =>
        /\ pc \in {"finish", "result", "done"}
        /\ OutputPath \in files
        /\ output = [kind |-> "copy", parts |-> <<segment_files[1]>>]
        /\ segment_files[1] = concat_list[1]

\* C21 witness: the run returned after a failed concat of two slide segments,
\* the output being a copy of the first.
C21_Witness ==
    /\ pc = "done"
    /\ concat_rc = "fail"
    /\ segment_files = <<SegFile(0), SegFile(1)>>
    /\ output = [kind |-> "copy", parts |-> <<SegFile(0)>>]

\* C22 as stated: a 1920x1080 source is placed 1080 wide and 608 high with 656
\* rows of brand colour above and 656 below.
C22_LetterboxHeight608 ==
    (unit.fn = "_letterbox_landscape" /\ unit.cw = 1920 /\ unit.ch = 1080) =>
        /\ unit.out.placed = <<1080, 608>>
        /\ unit.out.top = 656
        /\ unit.out.bottom = 656

\* C22 amended: a 1920x1080 source is placed 1080 wide and 607 high, 656 rows
\* below the top, which leaves 657 rows under it; in general the placed height
\* is ch*1080/cw rounded down and the top offset (1920 - height)/2 rounded down.
C22_LetterboxTruncates ==
    unit.fn = "_letterbox_landscape" =>
        /\ unit.out.placed[1] = 1080
        /\ unit.out.placed[2] * unit.cw <= unit.ch * 1080
        /\ unit.ch * 1080 < (unit.out.placed[2] + 1) * unit.cw
        /\ 2 * unit.out.top <= 1920 - unit.out.placed[2]
        /\ 1920 - unit.out.placed[2] <= 2 * unit.out.top + 1
        /\ unit.out.top + unit.out.placed[2] + unit.out.bottom = 1920
        /\ (unit.cw = 1920 /\ unit.ch = 1080) =>
              /\ unit.out.placed = <<1080, 607>>
              /\ unit.out.top = 656
              /\ unit.out.bottom = 657

\* C22 witness: the 1920x1080 source letterboxed to 1080x607 at row 656.
C22_Witness ==
    /\ unit.fn = "_letterbox_landscape"
    /\ unit.cw = 1920 /\ unit.ch = 1080
    /\ unit.out.placed = <<1080, 607>>
    /\ unit.out.top = 656

\* A clip that was letterboxed: the whole source is inside the frame, scaled
\* to the frame's width with its aspect ratio kept to the pixel.
Letterboxed(clip, cw, ch) ==
    /\ clip.kind = "letterbox"
    /\ clip.cut = <<0, 0>>
    /\ clip.placed[1] = 1080
    /\ clip.placed[2] * cw <= ch * 1080
    /\ ch * 1080 < (clip.placed[2] + 1) * cw
    /\ clip.top >= 0
    /\ clip.top + clip.placed[2] <= 1920

\* C26: an intro or bumper that is not included or whose file is absent gives
\* no segment; otherwise a landscape source is letterboxed (not cropped, not
\* stretched), a 1080x1920 source is written unchanged, and intro and bumper
\* get the same correction for the same source size.
C26_FixedAssetCorrection ==
    unit.fn = "compose_reel" =>
        /\ unit.out.intro.segment = (unit.include /\ unit.exists)
        /\ unit.out.bumper.segment = (unit.include /\ unit.exists)
        /\ unit.out.intro.clip = unit.out.bumper.clip
        /\ (unit.include /\ unit.exists) =>
              /\ unit.cw > unit.ch =>
                    /\ Letterboxed(unit.out.intro.clip, unit.cw, unit.ch)
                    /\ Letterboxed(unit.out.bumper.clip, unit.cw, unit.ch)
              /\ (unit.cw = 1080 /\ unit.ch = 1920) =>
                    /\ unit.out.intro.clip.kind = "none"
                    /\ unit.out.bumper.clip.kind = "none"
                    /\ unit.out.bumper.clip.placed = <<1080, 1920>>

\* C26 witness: an included, existing 1920x1080 bumper came out letterboxed.
C26_Witness ==
    /\ unit.fn = "compose_reel"
    /\ unit.include /\ unit.exists
    /\ unit.cw = 1920 /\ unit.ch = 1080
    /\ unit.out.bumper.segment
    /\ unit.out.bumper.clip.kind = "letterbox"

\* The search_and_download calls made for slide n (0-based).
SearchesFor(n) == {k \in 1..Len(search_log) : search_log[k].slide = n}

C28_FailedDownloadIsNoMedia ==
    (/\ unit.fn = "render_reels_page.slide"
     /\ ~unit.result.bytes
     /\ unit.result.type \in {"gif", "video", "image"}) =>
        /\ unit.recorded = NoMedia
        /\ unit.scene = Returns([bg |-> "flat", duration |-> unit.duration,
                                 overlay |-> unit.overlay = "ok"])
        /\ unit.direct = unit.scene
        /\ unit.scene = CreateReelScene(NoMedia, TRUE, unit.overlay,
                                        unit.duration)

\* C28 witness: a video whose download failed, decodable had it been tried,
\* ended as the flat scene with its overlay.
C28_Witness ==
    /\ unit.fn = "render_reels_page.slide"
    /\ unit.result = Media(FALSE, "video")
    /\ unit.decodes
    /\ unit.overlay = "ok"
    /\ unit.recorded = NoMedia
    /\ unit.scene.ret.bg = "flat"
    /\ unit.scene.ret.overlay

\* Sum of the durations of a sequence of records with a duration.
RECURSIVE TotalDuration(_)
TotalDuration(seq) ==
    IF seq = <<>> THEN 0 ELSE Head(seq).duration + TotalDuration(Tail(seq))

\* The number of fixed assets in the timeline.
FixedAssetsUsed ==
    (IF IntroUsed THEN 1 ELSE 0) + (IF BumperUsed THEN 1 ELSE 0)

\* C24: for the script hook, content with a resolvable gif, content whose
\* sourcing fails, closing, the concatenated timeline has the four slide
\* segments plus the fixed assets included, its slide segments last as long
\* as the four slide durations together, and the third scene is the flat one.
C24_FourSlideTimeline ==
    (/\ slides = FourSlideScript
     /\ Returned
     /\ concat_rc = "ok"
     /\ Len(search_log) = 2
     /\ search_log[1].result = Media(TRUE, "gif")
     /\ ~search_log[2].result.bytes) =>
        /\ Len(concat_list) = 4 + FixedAssetsUsed
        /\ Len(SlideSegments(concat_list)) = 4
        /\ TotalDuration(SelectSeq(segment_durs,
                LAMBDA e : SegFile(e.slide) \in Range(concat_list)))
              = TotalDuration(scene_clips)
        /\ scene_clips[3].bg = "flat"

\* The slides of run r whose temp file is registered and not rendered yet.
PendingMedia(r) ==
    IF runs[r].pc = "scenes" THEN 0..(runs[r].i - 1)
    ELSE IF runs[r].pc = "render" THEN runs[r].i..(MaxSlides - 1)
    ELSE {}

\* C27: with two runs overlapping in one process, the cleanup at the end of
\* one never deletes a temp media file the other has registered and not yet
\* rendered: such a file is on disk, and no segment loses its media.
C27_CleanupSparesOtherRun ==
    pc = "overlap" =>
        \A r \in RunIds :
            /\ \A n \in PendingMedia(r) : Path("media", RunMedia(r, n)) \in files
            /\ runs[r].lost = {}

\* ---------------------------------------------------------------------
\* InstagramClient._post_with_retry
\* ---------------------------------------------------------------------

MAX_RETRIES == 3
RETRY_DELAYS == <<10, 30, 60>>

\* How many replies of the server are drawn ahead of a request.
MaxPosts == 4

\* What one POST ends in: the parsed body, or the error raised by
\* requests.post / _check_response, named by the keyword its message carries.
ServerReplies == {"ok", "503", "code=-2", "code=190"}

_is_retryable(error) == error \in {"503", "code=-2"}

\* The pipeline is not running while at is modelled.
PipelineIdle(at) ==
    /\ pc = at
    /\ slides = <<>>
    /\ include_intro = FALSE
    /\ include_bumper = TRUE
    /\ intro_exists = FALSE
    /\ bumper_exists = FALSE
    /\ media_data = <<>>
    /\ narration_paths = <<>>
    /\ scene_clips = <<>>
    /\ segment_files = <<>>
    /\ concat_list = <<>>
    /\ files = {}
    /\ _temp_files = <<>>
    /\ i = 0
    /\ render_failed = {}
    /\ cleanup_calls = 0
    /\ concat_rc = "none"
    /\ tts_failed = {}
    /\ segment_durs = <<>>
    /\ output = NoOutput
    /\ search_log = <<>>
    /\ unit = NoCall

\* _post_with_retry is entered: attempt 0, nothing posted, nothing slept.
InitPost ==
    /\ PipelineIdle("post")
    /\ last_run = NoRun
    /\ runs = <<>>
    /\ ig = NoRequest
    /\ post \in [state : {"running"}, attempt : {0}, posts : {0},
                 slept : {<<>>}, script : [1..MaxPosts -> ServerReplies]]

RetriesEveryError(attempt, e) == attempt < MAX_RETRIES - 1

\* The condition of the except branch under which the loop goes on.
Retries(attempt, e) == attempt < MAX_RETRIES - 1 /\ _is_retryable(e)

\* One iteration of the for loop: the POST, then return, sleep or raise.
\* Falling out of the loop raises last_error.
PostAttempt ==
    /\ pc = "post"
    /\ post.state = "running"
    /\ post.posts < MaxPosts
    /\ LET reply == post.script[post.posts + 1]
       IN  post' =
             IF post.attempt >= MAX_RETRIES
             THEN [post EXCEPT !.state = "raised"]
             ELSE IF reply = "ok"
             THEN [post EXCEPT !.state = "returned", !.posts = @ + 1]
             ELSE IF Retries(post.attempt, reply)
             THEN [post EXCEPT !.posts = @ + 1,
                               !.slept = Append(@, RETRY_DELAYS[post.attempt + 1]),
                               !.attempt = @ + 1]
             ELSE [post EXCEPT !.state = "raised", !.posts = @ + 1]
    /\ UNCHANGED <<pc, slides, include_intro, include_bumper, intro_exists,
                   bumper_exists, media_data, narration_paths, scene_clips,
                   segment_files, concat_list, files, _temp_files, i,
                   render_failed, cleanup_calls, concat_rc, tts_failed,
                   segment_durs, unit, output, search_log, last_run, runs, ig>>

NextPost == PostAttempt

\* The loop is sequential code: an iteration that can run does run.
SpecPost == InitPost /\ [][NextPost]_vars /\ WF_vars(NextPost)

\* The replies to the POSTs made so far, the last one excepted, were all
\* retryable errors, each followed by its delay.
RetriedSoFar(n) ==
    /\ \A k \in 1..n : _is_retryable(post.script[k])
    /\ post.slept = [k \in 1..n |-> RETRY_DELAYS[k]]

RetryDiscipline ==
    pc = "post" =>
        /\ post.posts <= MAX_RETRIES
        /\ post.state = "running" =>
              /\ post.posts < MAX_RETRIES
              /\ post.attempt = post.posts
              /\ RetriedSoFar(post.posts)
        /\ post.state = "returned" =>
              /\ post.script[post.posts] = "ok"
              /\ RetriedSoFar(post.posts - 1)
        /\ post.state = "raised" =>
              /\ post.posts >= 1
              /\ post.script[post.posts] # "ok"
              /\ \/ ~_is_retryable(post.script[post.posts])
                 \/ post.posts = MAX_RETRIES
              /\ RetriedSoFar(post.posts - 1)

\* C29: _post_with_retry makes at most MAX_RETRIES POSTs; it returns on the
\* first success; after failed attempt k it sleeps RETRY_DELAYS[k] and goes
\* on only if the error is retryable and k < 2; a non-retryable error or a
\* failure of the third attempt is raised at once; the loop always ends.
C29_BoundedRetry ==
    /\ [](RetryDiscipline)
    /\ <>(pc = "post" => post.state # "running")

\* Two retryable failures, both slept on, then a third failure raised.
C29_Witness ==
    /\ pc = "post"
    /\ post.state = "raised"
    /\ post.posts = MAX_RETRIES
    /\ post.slept = <<10, 30>>
    /\ _is_retryable(post.script[MAX_RETRIES])

\* ---------------------------------------------------------------------
\* InstagramClient.publish_carousel
\* ---------------------------------------------------------------------

\* The longest image list a caller passes.
MaxImages == 11

\* The defaults of _wait_for_container(container_id, max_wait, interval).
MAX_WAIT == 180
INTERVAL == 5
PollLimit == MAX_WAIT \div INTERVAL

\* The smallest and the largest carousel publish_carousel accepts.
MinCarousel == 2
MaxCarousel == 10

\* scheduled_time: absent, a datetime, or a (non-zero) timestamp.
ScheduledTimes == {"None", "datetime", "timestamp"}

\* status_code of a container as one GET reports it.
ContainerStatuses == {"FINISHED", "ERROR", "IN_PROGRESS"}

\* The id of the carousel container; the child of the k-th image has id k.
CarouselId == 0

NeverScheduled(scheduled_time) == FALSE

\* `if scheduled_time:`
Scheduled(scheduled_time) == scheduled_time # "None"

\* One POST through _post_with_retry, as the log keeps it.
ApiCall(op, arg, sched) == [op |-> op, arg |-> arg, sched |-> sched]

\* publish_carousel(image_urls, caption, scheduled_time) is entered.
InitPublish ==
    /\ PipelineIdle("publish")
    /\ last_run = NoRun
    /\ runs = <<>>
    /\ post = NoRequest
    /\ ig \in [state : {"running"}, step : {"entry"}, n : 0..MaxImages,
               scheduled_time : ScheduledTimes, child_ids : {<<>>},
               waiting : {CarouselId}, polls : {0}, calls : {<<>>},
               finished : {{}}, last_status : {"none"}, error : {"none"},
               result : {"none"}]

PublishRest ==
    UNCHANGED <<pc, slides, include_intro, include_bumper, intro_exists,
                bumper_exists, media_data, narration_paths, scene_clips,
                segment_files, concat_list, files, _temp_files, i,
                render_failed, cleanup_calls, concat_rc, tts_failed,
                segment_durs, unit, output, search_log, last_run, runs, post>>

\* The two length checks at the head of publish_carousel.
CarouselValidate ==
    /\ pc = "publish"
    /\ ig.state = "running"
    /\ ig.step = "entry"
    /\ ig' = IF ig.n < MinCarousel \/ ig.n > MaxCarousel
             THEN [ig EXCEPT !.state = "raised", !.error = "ValueError"]
             ELSE [ig EXCEPT !.step = "child_create"]
    /\ PublishRest

\* _create_child_container(img_url) for the next image.
CreateChild ==
    /\ pc = "publish"
    /\ ig.state = "running"
    /\ ig.step = "child_create"
    /\ \E ok \in BOOLEAN :
          LET k == Len(ig.child_ids) + 1
              logged == Append(ig.calls, ApiCall("child", <<k>>, FALSE))
          IN  ig' = IF ok
                    THEN [ig EXCEPT !.calls = logged, !.step = "child_wait",
                                    !.waiting = k, !.polls = 0,
                                    !.last_status = "none"]
                    ELSE [ig EXCEPT !.calls = logged, !.state = "raised",
                                    !.error = "post"]
    /\ PublishRest

\* Where publish_carousel goes once _wait_for_container returned True.
AfterFinished(g) ==
    IF g.step = "child_wait"
    THEN [g EXCEPT !.child_ids = Append(@, g.waiting),
                   !.step = IF Len(g.child_ids) + 1 < g.n THEN "child_create"
                            ELSE "carousel_create"]
    ELSE IF Scheduled(g.scheduled_time)
    THEN [g EXCEPT !.state = "returned", !.result = "scheduled"]
    ELSE [g EXCEPT !.step = "publish"]

\* One turn of the loop of _wait_for_container, or its TimeoutError.
PollContainer ==
    /\ pc = "publish"
    /\ ig.state = "running"
    /\ ig.step \in {"child_wait", "carousel_wait"}
    /\ IF ig.polls >= PollLimit
       THEN ig' = [ig EXCEPT !.state = "raised", !.error = "TimeoutError"]
       ELSE \E status \in ContainerStatuses :
              LET g == [ig EXCEPT !.polls = @ + 1, !.last_status = status]
              IN  ig' = IF status = "FINISHED"
                        THEN AfterFinished(
                               [g EXCEPT !.finished = @ \cup {ig.waiting}])
                        ELSE IF status = "ERROR"
                        THEN [g EXCEPT !.state = "raised",
                                       !.error = "RuntimeError"]
                        ELSE g
    /\ PublishRest

\* _create_carousel_container(child_ids, caption, scheduled_time).
CreateCarousel ==
    /\ pc = "publish"
    /\ ig.state = "running"
    /\ ig.step = "carousel_create"
    /\ \E ok \in BOOLEAN :
          LET logged == Append(ig.calls,
                               ApiCall("carousel", ig.child_ids,
                                       Scheduled(ig.scheduled_time)))
          IN  ig' = IF ok
                    THEN [ig EXCEPT !.calls = logged, !.step = "carousel_wait",
                                    !.waiting = CarouselId, !.polls = 0,
                                    !.last_status = "none"]
                    ELSE [ig EXCEPT !.calls = logged, !.state = "raised",
                                    !.error = "post"]
    /\ PublishRest

\* _publish(carousel_id).
Publish ==
    /\ pc = "publish"
    /\ ig.state = "running"
    /\ ig.step = "publish"
    /\ \E ok \in BOOLEAN :
          LET logged == Append(ig.calls,
                               ApiCall("media_publish", <<CarouselId>>, FALSE))
          IN  ig' = IF ok
                    THEN [ig EXCEPT !.calls = logged, !.state = "returned",
                                    !.result = "published"]
                    ELSE [ig EXCEPT !.calls = logged, !.state = "raised",
                                    !.error = "post"]
    /\ PublishRest

NextPublish ==
    \/ CarouselValidate
    \/ CreateChild
    \/ PollContainer
    \/ CreateCarousel
    \/ Publish

SpecPublish == InitPublish /\ [][NextPublish]_vars

\* The positions in the log of the calls of one kind.
CallsOf(op) == {j \in 1..Len(ig.calls) : ig.calls[j].op = op}

\* C30: publish_carousel rejects fewer than 2 or more than 10 images before
\* any API call; a child is created only after every earlier child polled
\* FINISHED; the carousel container is created only after all children are
\* FINISHED, with the children in image order; media_publish is called only
\* after the carousel container is FINISHED and never with a scheduled time;
\* a container reporting ERROR, or not FINISHED within max_wait // interval
\* polls, ends the publish with an exception.
C30_CarouselProtocol ==
    pc = "publish" =>
        /\ (ig.n < 2 \/ ig.n > 10) =>
              /\ ig.calls = <<>>
              /\ ig.state # "returned"
              /\ ig.step = "entry"
        /\ \A j \in CallsOf("child") :
              /\ ig.calls[j].arg[1] = j
              /\ j <= ig.n
              /\ \A k \in 1..(j - 1) : k \in ig.finished
              /\ j < Len(ig.calls) => j \in ig.finished
        /\ \A j \in CallsOf("carousel") :
              /\ j = ig.n + 1
              /\ ig.calls[j].arg = [k \in 1..ig.n |-> k]
              /\ \A k \in 1..ig.n : k \in ig.finished
              /\ ig.calls[j].sched = (ig.scheduled_time # "None")
        /\ \A j \in CallsOf("media_publish") :
              /\ j = ig.n + 2
              /\ CarouselId \in ig.finished
              /\ ig.scheduled_time = "None"
        /\ ig.polls <= 180 \div 5
        /\ ig.last_status = "ERROR" =>
              ig.state = "raised" /\ ig.error = "RuntimeError"
        /\ (ig.polls = 180 \div 5 /\ ig.last_status = "IN_PROGRESS") =>
              /\ ig.state \in {"running", "raised"}
              /\ ig.state = "raised" => ig.error = "TimeoutError"
              /\ ig.waiting \notin ig.finished
        /\ ig.state = "returned" =>
              /\ \A k \in 0..ig.n : k \in ig.finished
              /\ ig.result = IF ig.scheduled_time = "None" THEN "published"
                             ELSE "scheduled"
              /\ (ig.result = "published") = (CallsOf("media_publish") # {})

\* A scheduled carousel of three images went through: three children, each
\* finished, then the carousel container, and no media_publish.
C30_Witness ==
    /\ pc = "publish"
    /\ ig.state = "returned"
    /\ ig.n = 3
    /\ ig.scheduled_time = "datetime"
    /\ Len(ig.calls) = 4
    /\ CallsOf("media_publish") = {}

\* ---------------------------------------------------------------------
\* The pipeline run twice in one process on the same inputs
\* ---------------------------------------------------------------------

\* The first run right after the button was pressed on a script with slides.
InitTwoRuns ==
    /\ pc = "source"
    /\ slides \in {s \in SlideLists : Len(s) > 0}
    /\ include_intro \in BOOLEAN
    /\ include_bumper \in BOOLEAN
    /\ intro_exists = TRUE
    /\ bumper_exists = TRUE
    /\ media_data = <<>>
    /\ narration_paths = <<>>
    /\ scene_clips = <<>>
    /\ segment_files = <<>>
    /\ concat_list = <<>>
    /\ files = {}
    /\ _temp_files = <<>>
    /\ i = 0
    /\ render_failed = {}
    /\ cleanup_calls = 0
    /\ concat_rc = "none"
    /\ tts_failed = {}
    /\ segment_durs = <<>>
    /\ output = NoOutput
    /\ search_log = <<>>
    /\ last_run = NoRun
    /\ runs = <<>>
    /\ post = NoRequest
    /\ ig = NoRequest
    /\ unit = NoCall

\* The durations of the slide segments a run produced, in timeline order.
SegmentDurations(durs, failed) ==
    LET kept == SelectSeq(durs, LAMBDA e : e.slide \notin failed)
    IN  [k \in 1..Len(kept) |-> kept[k].duration]

\* A temp file of an earlier run: NamedTemporaryFile names are never reused.
Leftover(p) == Path(IF p.k = "media" THEN "old_media" ELSE "old_sfx", p.n)

\* _temp_files is a module-level list: what a run left in it is still there
\* when the next run starts.
LeftoverRegistry(tracked) == [k \in 1..Len(tracked) |-> Leftover(tracked[k])]

\* The button is pressed again on the same script and switches.  The locals
\* of create_reel / compose_reel are new, output_dir is a new mkdtemp
\* directory; the temp files and the registry of the process remain.
Rerun ==
    /\ pc \in {"done", "raised"}
    /\ ~last_run.ran
    /\ Len(slides) > 0
    /\ last_run' = [ran |-> TRUE, pc |-> pc, media_data |-> media_data,
                    search_log |-> search_log,
                    narration_paths |-> narration_paths,
                    segments |-> Len(segment_files),
                    durations |-> SegmentDurations(segment_durs, render_failed),
                    render_failed |-> render_failed]
    /\ pc' = "source"
    /\ i' = 0
    /\ media_data' = <<>>
    /\ narration_paths' = <<>>
    /\ scene_clips' = <<>>
    /\ segment_files' = <<>>
    /\ concat_list' = <<>>
    /\ render_failed' = {}
    /\ concat_rc' = "none"
    /\ tts_failed' = {}
    /\ segment_durs' = <<>>
    /\ output' = NoOutput
    /\ search_log' = <<>>
    /\ files' = {Leftover(p) : p \in {q \in files : q.k \in {"media", "sfx"}}}
    /\ _temp_files' = LeftoverRegistry(_temp_files)
    /\ UNCHANGED <<slides, include_intro, include_bumper, intro_exists,
                   bumper_exists, cleanup_calls, unit, runs, post, ig>>

IsPrefix(s, t) == Len(s) <= Len(t) /\ s = SubSeq(t, 1, Len(s))

\* The second run is given what the first was given: the sourcing returns
\* the same results in the same order and the synthesis produces the same
\* narration audio.
Replays ==
    last_run.ran =>
        /\ IsPrefix(media_data', last_run.media_data)
        /\ IsPrefix(search_log', last_run.search_log)
        /\ IsPrefix(narration_paths', last_run.narration_paths)

NextTwoRuns ==
    \/ SourceSlide /\ Replays
    \/ NarrateSlide /\ Replays
    \/ BuildScene /\ Replays
    \/ Intro /\ Replays
    \/ RenderScene /\ Replays
    \/ Bumper /\ Replays
    \/ Concat /\ Replays
    \/ Finish /\ Replays
    \/ ReadResult /\ Replays
    \/ Rerun

SpecTwoRuns == InitTwoRuns /\ [][NextTwoRuns]_vars

\* C23: the pipeline run twice on identical slides, identical narration
\* audio and identical sourcing results in the same order produces the same
\* number of segments with pairwise identical durations, whatever the first
\* run left behind.
C23_RerunSameSegments ==
    (last_run.ran /\ last_run.pc = "done" /\ pc = "done") =>
        /\ Len(segment_files) = last_run.segments
        /\ SegmentDurations(segment_durs, render_failed) = last_run.durations
====
